---------------------------- MODULE Spec2Model ----------------------------
(***************************************************************************)
(* check-broken-packages (src/check-broken-packages/src/main.rs).          *)
(*                                                                         *)
(* Several specifications share the definitions below:                     *)
(*   Spec       the whole run of main(): the probe thread, the Stage B and *)
(*              Stage A worker pools, the three crossbeam channels, the    *)
(*              service-link scan and the coordinator's aggregation;       *)
(*   FairSpec   Spec with every runnable thread scheduled;                 *)
(*   SpecAgg    the coordinator's aggregation loop and transitive filter,  *)
(*              started on an arbitrary drained tuple queue;               *)
(*   SpecParse  get_missing_dependencies applied to arbitrary ldd output,  *)
(*              and the owner-query key of each soname it returns;         *)
(*   SpecList   get_package_linked_files on an arbitrary listing and file  *)
(*              system;                                                    *)
(*   SpecLinks  the service-link scan with is_valid_link on an arbitrary   *)
(*              file system.                                               *)
(*                                                                         *)
(* Rust Strings are sequences of one-character strings, so that            *)
(* starts_with, ends_with, split and trim_start are computed, not assumed. *)
(***************************************************************************)
EXTENDS Integers, Sequences, FiniteSets, Bags, TLC

VARIABLES
    aur_packages,               \* main.rs:308  Vec<String> of foreign packages
    cpu_count,                  \* main.rs:305
    enabled_sd_service_links,   \* main.rs:311
    broken_sd_service_links,    \* main.rs:313
    progress,                   \* main.rs:316  [pos, len] of the ProgressBar
    package_ch,                 \* main.rs:372  [q, tx, rx]
    exec_files_ch,              \* main.rs:327  [q, tx, rx]
    missing_deps_ch,            \* main.rs:323  [q, tx, rx]
    python_ch,                  \* main.rs:279  [q, tx, rx]
    main_pc,                    \* position of the coordinator in main()
    python_pc,                  \* position of the probe thread
    workerA,                    \* Stage A workers: [pc, package, exec_files, i]
    workerB,                    \* Stage B workers: [pc, work, missing_deps]
    next_package,               \* main.rs:425  position of the send loop
    libmap, trans2, pacmap, pacsourcemap, trans,   \* main.rs:444-461
    log,                        \* history of what the run did (not program state)
    ldd_output, parsed,         \* input and result of SpecParse
    lookup_keys,                \* main.rs:345  SpecParse: the owner-query keys
    fs, cwd,                    \* the file system and the working directory
    pacman_output,              \* main.rs:168  SpecList: output of pacman -Ql
    linked_files                \* main.rs:177  SpecList: the artifacts returned

vars == << aur_packages, cpu_count, enabled_sd_service_links,
           broken_sd_service_links, progress, package_ch, exec_files_ch,
           missing_deps_ch, python_ch, main_pc, python_pc, workerA, workerB,
           next_package, libmap, trans2, pacmap, pacsourcemap, trans, log,
           ldd_output, parsed, lookup_keys, fs, cwd, pacman_output,
           linked_files >>

\* the variables of the file-listing step and of the file system
fsvars == << fs, cwd, pacman_output, linked_files >>

---------------------------------------------------------------------------
(* Bounds of the model *)

MaxPackages == 1     \* at most this many foreign packages
MaxCpu == 1          \* num_cpus::get() ranges over 1..MaxCpu
MaxLinks == 1        \* the number of enabled service links
MaxTuples == 2       \* SpecAgg: length of the drained tuple queue
MaxLines == 2        \* SpecParse: number of lines of ldd output

---------------------------------------------------------------------------
(* Strings *)

Min(a, b) == IF a <= b THEN a ELSE b

Range(s) == { s[k] : k \in 1..Len(s) }

\* str::starts_with
StartsWith(s, p) == Len(s) >= Len(p) /\ SubSeq(s, 1, Len(p)) = p

\* str::ends_with
EndsWith(s, p) ==
    Len(s) >= Len(p) /\ SubSeq(s, Len(s) - Len(p) + 1, Len(s)) = p

\* char::is_whitespace, over the characters of the model
IsWhitespace(c) == c \in {" ", "\t"}

\* str::trim_start
RECURSIVE trim_start(_)
trim_start(s) ==
    IF s # <<>> /\ IsWhitespace(Head(s)) THEN trim_start(Tail(s)) ELSE s

\* s.split(c).next(): the text before the first c, the whole of s without one
RECURSIVE SplitNext(_, _)
SplitNext(s, c) ==
    IF s = <<>> \/ Head(s) = c THEN <<>>
    ELSE <<Head(s)>> \o SplitNext(Tail(s), c)

\* s.split_once(c).1: the text after the first c (s holds one)
RECURSIVE AfterFirst(_, _)
AfterFirst(s, c) ==
    IF Head(s) = c THEN Tail(s) ELSE AfterFirst(Tail(s), c)

\* anyhow::Result
Ok(v) == [ok |-> TRUE, val |-> v]
Err == [ok |-> FALSE, val |-> <<>>]

\* Result::unwrap_or
unwrap_or(r, d) == IF r.ok THEN r.val ELSE d

---------------------------------------------------------------------------
(* What the external tools can answer *)

\* std::process::Output of a tool that ran; SpawnErr when it could not be run
Output(status, stdout) == [spawned |-> TRUE, status |-> status, stdout |-> stdout]
SpawnErr == [spawned |-> FALSE, status |-> 1, stdout |-> <<>>]

PackageNames == << "demo", "foo", "bar", "baz" >>

UsrBinA == << "/","u","s","r","/","b","i","n","/","a" >>
UsrLibSo == << "/","u","s","r","/","l","i","b","/","a",".","s","o" >>
OptA == << "/","o","p","t","/","a" >>
UsrShareA == << "/","u","s","r","/","s","h","a","r","e","/","a" >>

\* sonames ldd reports
LibA1 == << "a",".","s","o",".","1" >>
LibB == << "b",".","s","o" >>
Sonames == { LibA1, LibB }

NotFoundTail == << " ","=",">"," ","n","o","t"," ","f","o","u","n","d" >>
FoundTail == << " ","=",">"," ","/","l"," ","(","0",")" >>

\* "\t<soname> => not found" and "\t<soname> => /l (0)"
NotFoundLine(s) == << "\t" >> \o s \o NotFoundTail
FoundLine(s) == << "\t" >> \o s \o FoundTail

\* get_package_linked_files: the pacman -Ql listing after the file filter,
\* or the failure of the listing
ListingOutcomes ==
    { Err, Ok(<<>>), Ok(<< UsrBinA >>), Ok(<< UsrBinA, UsrLibSo >>),
      Ok(<< OptA, UsrShareA >>), Ok(<< OptA, UsrBinA >>) }

\* patchelf --print-needed <artifact>: one NEEDED soname per line; every
\* shape of answer
PatchelfOutcomes ==
    { SpawnErr, Output(1, <<>>), Output(0, <<>>),
      Output(0, << LibA1 >>), Output(0, << LibA1, LibB >>) }

\* The installed system of the whole-run specification: what each tool can
\* answer there for each argument.  The executable misses a.so.1 and b.so
\* (or ldd fails on it), the shared object misses b.so or nothing; no
\* repository package owns a.so (or pacman cannot be run), one owns b.so;
\* patchelf lists a.so.1 for the executable and cannot read the shared object.
LddAnswers(file) ==
    IF file = UsrBinA
    THEN { SpawnErr,
           Output(1, << NotFoundLine(LibA1) >>),
           Output(0, << NotFoundLine(LibA1), FoundLine(LibB), NotFoundLine(LibB) >>) }
    ELSE { Output(0, << FoundLine(LibB) >>),
           Output(0, << NotFoundLine(LibB) >>) }

OwnerAnswers(key) ==
    IF key = << "a", ".", "s", "o" >>
    THEN { SpawnErr, Output(0, <<>>) }
    ELSE { Output(0, << << "e","/","f" >> >>) }

PatchelfAnswers(t) ==
    IF t.file = UsrBinA THEN { Output(0, << LibA1 >>) } ELSE { SpawnErr }

\* is_valid_link(link)
LinkOutcomes == { Ok(TRUE), Ok(FALSE), Err }

\* what the probe thread can get: get_python_version fails, or it succeeds
\* and get_broken_python_packages fails or finds a package in the directory
\* of another interpreter version
ProbeOutcomes ==
    { [version |-> Err, packages |-> Err],
      [version |-> Ok("3.11"), packages |-> Err],
      [version |-> Ok("3.11"), packages |-> Ok(<< << "demo", "python3.10" >> >>)] }

---------------------------------------------------------------------------
(* Pure functions of main.rs *)

\* main.rs:401
BLACKLISTED_EXE_DIRS ==
    << << "/","o","p","t","/" >>,
       << "/","u","s","r","/","s","h","a","r","e","/" >> >>

\* a filter that lets every path pass
AnyPath(p) == TRUE

\* main.rs:404  the closure |p| !BLACKLISTED_EXE_DIRS.iter().any(...)
NotBlacklisted(p) ==
    ~ \E k \in 1..Len(BLACKLISTED_EXE_DIRS) : StartsWith(p, BLACKLISTED_EXE_DIRS[k])

\* main.rs:402-405  exec_files.iter().filter(...)
FilteredExecFiles(exec_files) == SelectSeq(exec_files, NotBlacklisted)

\* every message is flagged as the last of its package
AlwaysLast(i, exec_files) == TRUE

\* main.rs:410
PackageLast(i, exec_files) == i = Len(exec_files) - 1

\* main.rs:407-411  the message of iteration i (0-based) of the enumerate()
ExecFileWork(package, exec_files, i) ==
    [ package |-> package,
      exec_filepath |-> FilteredExecFiles(exec_files)[i + 1],
      package_last |-> PackageLast(i, exec_files) ]

\* main.rs:216
IsNotFoundLine(l) == EndsWith(l, SubSeq(NotFoundTail, 2, Len(NotFoundTail)))

\* the soname taken without trimming the indentation
SonameUntrimmed(l) == SplitNext(l, " ")

\* main.rs:217-218
SonameOfLine(l) == trim_start(SplitNext(l, " "))

\* main.rs:204-226
get_missing_dependencies(out) ==
    IF ~ out.spawned THEN Err
    ELSE IF out.status = 0
         THEN LET lines == SelectSeq(out.stdout, IsNotFoundLine)
              IN  Ok([k \in 1..Len(lines) |-> SonameOfLine(lines[k])])
         ELSE Ok(<<>>)

\* main.rs:345  missing_dep.split("/").last(): the text after the last "/"
RECURSIVE LastSegment(_)
LastSegment(s) ==
    IF "/" \in Range(s) THEN LastSegment(AfterFirst(s, "/")) ELSE s

\* main.rs:345  s.split_inclusive(pat).next(): the text up to the first pat,
\* pat included, the whole of s without one; None when s is empty
RECURSIVE UpToFirst(_, _)
UpToFirst(s, pat) ==
    IF s = <<>> THEN <<>>
    ELSE IF StartsWith(s, pat) THEN pat
    ELSE << Head(s) >> \o UpToFirst(Tail(s), pat)

SplitInclusiveNext(s, pat) == IF s = <<>> THEN Err ELSE Ok(UpToFirst(s, pat))

\* main.rs:345  the key of the owner query; the final unwrap() panics on None
lookup_key(missing_dep) ==
    SplitInclusiveNext(LastSegment(missing_dep), << ".", "s", "o" >>)

\* main.rs:121
OwnerOfLine(l) == AfterFirst(l, "/")

\* main.rs:113-123
get_package_owning_path(out) ==
    IF ~ out.spawned THEN Err
    ELSE Ok([k \in 1..Len(out.stdout) |-> OwnerOfLine(out.stdout[k])])

\* main.rs:345  the providers of a tuple
Providers(out) == unwrap_or(get_package_owning_path(out), << "?" >>)

\* main.rs:198-202
is_direct_dep(out, dep) ==
    IF ~ out.spawned THEN Err
    ELSE Ok(\E k \in 1..Len(out.stdout) : out.stdout[k] = dep)

\* main.rs:450
IsDirect(out, dep) == unwrap_or(is_direct_dep(out, dep), TRUE)

\* main.rs:435
IsBroken(r) == ~ unwrap_or(r, TRUE)

---------------------------------------------------------------------------
(* The file system, as fs::read_link and fs::metadata see it *)

\* a node is absent, a regular file with its mode bits, a directory, or a
\* symbolic link with the text it holds
Absent == [kind |-> "absent", mode |-> 0, target |-> <<>>]
File(mode) == [kind |-> "file", mode |-> mode, target |-> <<>>]
Dir == [kind |-> "dir", mode |-> 493, target |-> <<>>]
Link(target) == [kind |-> "link", mode |-> 511, target |-> target]

NodeAt(abs) == IF abs \in DOMAIN fs THEN fs[abs] ELSE Absent

\* a relative path is taken from the directory base (which ends with "/")
Absolute(p, base) == IF Head(p) = "/" THEN p ELSE base \o p

\* the directory that holds the entry p, with its final "/"
RECURSIVE DirOf(_)
DirOf(p) ==
    IF p = <<>> \/ p[Len(p)] = "/" THEN p ELSE DirOf(SubSeq(p, 1, Len(p) - 1))

\* path resolution by the kernel: links are followed, each from the
\* directory that holds it, until a node that is no link; too many hops
\* (a loop) and an empty path are errors
RECURSIVE Follow(_, _)
Follow(abs, hops) ==
    LET n == NodeAt(abs)
    IN  IF n.kind # "link" THEN n
        ELSE IF hops = 0 \/ n.target = <<>> THEN Absent
        ELSE Follow(Absolute(n.target, DirOf(abs)), hops - 1)

\* fs::metadata(p): follows links; a relative p is taken from the working
\* directory of the process
metadata(p) ==
    LET n == IF p = <<>> THEN Absent
             ELSE Follow(Absolute(p, cwd), Cardinality(DOMAIN fs))
    IN  IF n.kind = "absent" THEN Err ELSE Ok(n)

\* fs::read_link(p): the text of the link p, unresolved
read_link(p) ==
    LET n == IF p = <<>> THEN Absent ELSE NodeAt(Absolute(p, cwd))
    IN  IF n.kind = "link" THEN Ok(n.target) ELSE Err

---------------------------------------------------------------------------
(* get_package_linked_files: main.rs:167-196 *)

\* main.rs:182  l.split(' ').nth(1): the text between the first space and
\* the next one; None without a space
SplitNth1(l) ==
    IF " " \in Range(l) THEN Ok(SplitNext(AfterFirst(l, " "), " ")) ELSE Err

IsSome(o) == o.ok

\* main.rs:183-187
OneHop(s) == unwrap_or(read_link(s), s)

\* main.rs:190  (m.permissions().mode() & 0o111) != 0
AnyExecBit(mode) == \E b \in {0, 3, 6} : (mode \div 2^b) % 2 = 1

\* main.rs:190  p.chars().filter(|&c| c == '/').count()
CountChar(p, c) == Cardinality({ k \in 1..Len(p) : p[k] = c })

DotSo == << ".", "s", "o" >>

\* main.rs:188-192  the filter closure
IsLinkedFile(p) ==
    LET m == metadata(p)
    IN  unwrap_or(
            IF m.ok
            THEN Ok(/\ m.val.kind = "file"
                    /\ \/ AnyExecBit(m.val.mode)
                       \/ CountChar(p, "/") = 3 /\ EndsWith(p, DotSo))
            ELSE Err,
            FALSE)

\* main.rs:167-196
get_package_linked_files(out) ==
    IF ~ out.spawned \/ out.status # 0 THEN Err
    ELSE LET nth == SelectSeq([k \in 1..Len(out.stdout) |-> SplitNth1(out.stdout[k])],
                              IsSome)
             hop == [k \in 1..Len(nth) |-> OneHop(nth[k].val)]
         IN  Ok(SelectSeq(hop, IsLinkedFile))

---------------------------------------------------------------------------
(* is_valid_link: main.rs:250-270 *)

\* main.rs:250-270  fs::metadata follows links, so that the file type it
\* gives is never that of a link and the loop ends in its first round
RECURSIVE is_valid_link(_)
is_valid_link(link) ==
    LET target == read_link(link)
        m == metadata(target.val)
    IN  IF ~ target.ok THEN Err
        ELSE IF ~ m.ok THEN Ok(FALSE)
        ELSE IF m.val.kind = "file" THEN Ok(TRUE)
        ELSE IF m.val.kind = "link" THEN is_valid_link(target.val)
        ELSE Err

---------------------------------------------------------------------------
(* Channels (crossbeam::unbounded): the queue and the live handles *)

Channel(tx, rx) == [q |-> <<>>, tx |-> tx, rx |-> rx]
NoChannel == Channel(0, 0)

\* Sender::clone, n times / Receiver::clone, n times
CloneTx(ch, n) == [ch EXCEPT !.tx = @ + n]
CloneRx(ch, n) == [ch EXCEPT !.rx = @ + n]

\* drop of a Sender / of a Receiver
DropTx(ch) == [ch EXCEPT !.tx = @ - 1]
DropRx(ch) == [ch EXCEPT !.rx = @ - 1]

\* Sender::send: Err(..) once every Receiver is dropped
SendOk(ch) == ch.rx > 0

\* a send that loses the message
SendLost(ch, m) == ch
Send(ch, m) == IF SendOk(ch) THEN [ch EXCEPT !.q = Append(@, m)] ELSE ch

\* Receiver::recv returns a message when there is one, and Err once the
\* queue is empty and every Sender is dropped; it blocks otherwise
CanRecv(ch) == ch.q # <<>>
Disconnected(ch) == ch.q = <<>> /\ ch.tx = 0
Recv(ch) == [ch EXCEPT !.q = Tail(@)]

\* ProgressBar::inc
Inc(p, n) == [p EXCEPT !.pos = @ + n]

---------------------------------------------------------------------------
(* History *)

NoLog ==
    [ listed    |-> [p \in Range(PackageNames) |-> <<>>],  \* listings got, per package
      emitted   |-> [p \in Range(PackageNames) |-> <<>>],  \* ExecFileWork sent, per package
      worked    |-> [p \in Range(PackageNames) |-> <<>>],  \* ExecFileWork received, per package
      sent      |-> <<>>,                                  \* tuples sent, in queue order
      lddFailed |-> {},                                    \* works on which ldd failed, with the progress made
      incA      |-> [p \in Range(PackageNames) |-> 0],     \* progress.inc by Stage A
      incB      |-> [p \in Range(PackageNames) |-> 0],     \* progress.inc by Stage B
      incLinks  |-> 0,                                     \* progress.inc by the scan
      owner     |-> {},                                    \* <<owner query output, providers sent>>
      probe     |-> <<>>,                                  \* whether the probe failed
      pySent    |-> <<>>,                                  \* messages the probe sent
      pyRecv    |-> <<>>,                                  \* messages main received from it
      consumed  |-> <<>> ]                                 \* tuples aggregated, with their verdict

---------------------------------------------------------------------------
(* The coordinator before aggregation: main.rs:322-442 *)

IdleA == [pc |-> "recv", package |-> "", exec_files |-> <<>>, i |-> 0]
IdleB == [pc |-> "recv", work |-> <<>>, missing_deps |-> <<>>]

\* main.rs:375
WorkerCount == Min(cpu_count, Len(aur_packages))

\* main.rs:368
DropMissingDepsTx(ch) == DropTx(ch)

\* the coordinator keeps its Sender of exec_files
KeepExecFilesTx(ch) == ch

\* main.rs:422
DropExecFilesTx(ch) == DropTx(ch)

\* main.rs:429  package_tx and package_rx go out of scope with the closure
DropPackageHandles(ch) == DropRx(DropTx(ch))

\* main.rs:327-368
SpawnStageB ==
    /\ main_pc = "spawn_b"
    /\ exec_files_ch' = CloneRx(Channel(1, 1), cpu_count)
    /\ missing_deps_ch' = DropMissingDepsTx(CloneTx(missing_deps_ch, cpu_count))
    /\ workerB' = [w \in 1..cpu_count |-> IdleB]
    /\ main_pc' = "spawn_a"
    /\ UNCHANGED << aur_packages, cpu_count, enabled_sd_service_links,
                    broken_sd_service_links, progress, package_ch, python_ch,
                    python_pc, workerA, next_package, libmap, trans2, pacmap,
                    pacsourcemap, trans, log, ldd_output, parsed,
                    lookup_keys, fsvars >>

\* main.rs:370-422
SpawnStageA ==
    /\ main_pc = "spawn_a"
    /\ package_ch' = CloneRx(Channel(1, 1), WorkerCount)
    /\ exec_files_ch' = DropExecFilesTx(CloneTx(exec_files_ch, WorkerCount))
    /\ workerA' = [w \in 1..WorkerCount |-> IdleA]
    /\ main_pc' = "send_packages"
    /\ UNCHANGED << aur_packages, cpu_count, enabled_sd_service_links,
                    broken_sd_service_links, progress, missing_deps_ch,
                    python_ch, python_pc, workerB, next_package, libmap, trans2,
                    pacmap, pacsourcemap, trans, log, ldd_output, parsed,
                    lookup_keys, fsvars >>

\* main.rs:425-428  one iteration of the send loop
SendPackage ==
    /\ main_pc = "send_packages"
    /\ next_package <= Len(aur_packages)
    /\ package_ch' = Send(package_ch, aur_packages[next_package])
    /\ next_package' = next_package + 1
    /\ UNCHANGED << aur_packages, cpu_count, enabled_sd_service_links,
                    broken_sd_service_links, progress, exec_files_ch,
                    missing_deps_ch, python_ch, main_pc, python_pc, workerA,
                    workerB, libmap, trans2, pacmap, pacsourcemap, trans, log,
                    ldd_output, parsed,
                    lookup_keys, fsvars >>

\* main.rs:429  the inner closure returns; the scope then joins its threads
EndInnerScope ==
    /\ main_pc = "send_packages"
    /\ next_package > Len(aur_packages)
    /\ package_ch' = DropPackageHandles(package_ch)
    /\ main_pc' = "join_a"
    /\ UNCHANGED << aur_packages, cpu_count, enabled_sd_service_links,
                    broken_sd_service_links, progress, exec_files_ch,
                    missing_deps_ch, python_ch, python_pc, workerA, workerB,
                    next_package, libmap, trans2, pacmap, pacsourcemap, trans,
                    log, ldd_output, parsed,
                    lookup_keys, fsvars >>

\* main.rs:429-430  the inner scope has joined every Stage A worker
JoinStageA ==
    /\ main_pc = "join_a"
    /\ \A w \in DOMAIN workerA : workerA[w].pc = "done"
    /\ main_pc' = "links"
    /\ UNCHANGED << aur_packages, cpu_count, enabled_sd_service_links,
                    broken_sd_service_links, progress, package_ch,
                    exec_files_ch, missing_deps_ch, python_ch, python_pc,
                    workerA, workerB, next_package, libmap, trans2, pacmap,
                    pacsourcemap, trans, log, ldd_output, parsed,
                    lookup_keys, fsvars >>

\* main.rs:433-437  the links for which is_valid_link answered Ok(false)
BrokenLinks(links, res) ==
    LET F[k \in 0..Len(links)] ==
            IF k = 0 THEN <<>>
            ELSE IF IsBroken(res[k]) THEN Append(F[k - 1], links[k])
                 ELSE F[k - 1]
    IN  F[Len(links)]

\* main.rs:438
LinkProgress(links) == Len(links)

\* main.rs:432-439  the scan, in which is_valid_link answers res[k] for the
\* k-th link, and the outer closure returns (exec_files_rx goes out of scope)
ServiceLinkScanWith(res) ==
    /\ main_pc = "links"
    /\ broken_sd_service_links' = BrokenLinks(enabled_sd_service_links, res)
    /\ progress' = Inc(progress, LinkProgress(enabled_sd_service_links))
    /\ log' = [log EXCEPT !.incLinks = @ + LinkProgress(enabled_sd_service_links)]
    /\ exec_files_ch' = DropRx(exec_files_ch)
    /\ main_pc' = "join_b"
    /\ UNCHANGED << aur_packages, cpu_count, enabled_sd_service_links,
                    package_ch, missing_deps_ch, python_ch, python_pc, workerA,
                    workerB, next_package, libmap, trans2, pacmap, pacsourcemap,
                    trans, ldd_output, parsed,
                    lookup_keys, fsvars >>

\* the scan, whatever is_valid_link answers for each link
ServiceLinkScan ==
    \E res \in [1..Len(enabled_sd_service_links) -> LinkOutcomes] :
        ServiceLinkScanWith(res)

\* the scan on the file system fs
ServiceLinkScanFs ==
    ServiceLinkScanWith([k \in 1..Len(enabled_sd_service_links) |->
                            is_valid_link(enabled_sd_service_links[k])])

\* the outer scope returns without waiting for the Stage B workers
JoinStageBEarly ==
    /\ main_pc = "join_b"
    /\ main_pc' = "aggregate"
    /\ UNCHANGED << aur_packages, cpu_count, enabled_sd_service_links,
                    broken_sd_service_links, progress, package_ch,
                    exec_files_ch, missing_deps_ch, python_ch, python_pc,
                    workerA, workerB, next_package, libmap, trans2, pacmap,
                    pacsourcemap, trans, log, ldd_output, parsed,
                    lookup_keys, fsvars >>

\* main.rs:439-442  the outer scope has joined every Stage B worker
JoinStageB ==
    /\ main_pc = "join_b"
    /\ \A w \in DOMAIN workerB : workerB[w].pc = "done"
    /\ main_pc' = "aggregate"
    /\ UNCHANGED << aur_packages, cpu_count, enabled_sd_service_links,
                    broken_sd_service_links, progress, package_ch,
                    exec_files_ch, missing_deps_ch, python_ch, python_pc,
                    workerA, workerB, next_package, libmap, trans2, pacmap,
                    pacsourcemap, trans, log, ldd_output, parsed,
                    lookup_keys, fsvars >>

---------------------------------------------------------------------------
(* Stage A workers: main.rs:380-418 *)

UnchangedByA ==
    UNCHANGED << aur_packages, cpu_count, enabled_sd_service_links,
                 broken_sd_service_links, missing_deps_ch, python_ch, main_pc,
                 python_pc, workerB, next_package, libmap, trans2, pacmap,
                 pacsourcemap, trans, ldd_output, parsed,
                    lookup_keys, fsvars >>

\* only an empty listing is counted and skipped, a failed one is dropped
SkipsEmpty(r) == r.ok /\ r.val = <<>>

\* main.rs:383-397  the listing failed or is empty: progress.inc(1); continue
Skips(r) == ~ r.ok \/ r.val = <<>>

\* main.rs:381-405  receive a package, list its files; a failed or empty
\* listing advances the progress bar, another one starts the send loop
StageA_Recv(w) ==
    /\ workerA[w].pc = "recv"
    /\ CanRecv(package_ch)
    /\ \E r \in ListingOutcomes :
          LET package == Head(package_ch.q)
              skipped == Skips(r)
              looping == ~ skipped /\ FilteredExecFiles(r.val) # <<>>
          IN  /\ package_ch' = Recv(package_ch)
              /\ progress' = IF skipped THEN Inc(progress, 1) ELSE progress
              /\ workerA' = [workerA EXCEPT ![w] =
                                IF looping
                                THEN [pc |-> "send", package |-> package,
                                      exec_files |-> r.val, i |-> 0]
                                ELSE IdleA]
              /\ log' = [log EXCEPT !.listed[package] = Append(@, r),
                                    !.incA[package] = IF skipped THEN @ + 1 ELSE @]
    /\ UNCHANGED exec_files_ch
    /\ UnchangedByA

\* main.rs:406-416  one iteration of the send loop
StageA_Send(w) ==
    /\ workerA[w].pc = "send"
    /\ LET wk == workerA[w]
           to_send == ExecFileWork(wk.package, wk.exec_files, wk.i)
           more == SendOk(exec_files_ch)
                   /\ wk.i + 1 < Len(FilteredExecFiles(wk.exec_files))
       IN  /\ exec_files_ch' = Send(exec_files_ch, to_send)
           /\ workerA' = [workerA EXCEPT ![w] =
                             IF more THEN [wk EXCEPT !.i = @ + 1] ELSE IdleA]
           /\ log' = IF SendOk(exec_files_ch)
                     THEN [log EXCEPT !.emitted[wk.package] = Append(@, to_send)]
                     ELSE log
    /\ UNCHANGED << package_ch, progress >>
    /\ UnchangedByA

\* main.rs:381,417  recv() fails: the worker returns and drops its handles
StageA_Exit(w) ==
    /\ workerA[w].pc = "recv"
    /\ Disconnected(package_ch)
    /\ workerA' = [workerA EXCEPT ![w].pc = "done"]
    /\ package_ch' = DropRx(package_ch)
    /\ exec_files_ch' = DropTx(exec_files_ch)
    /\ UNCHANGED << progress, log >>
    /\ UnchangedByA

---------------------------------------------------------------------------
(* Stage B workers: main.rs:334-364 *)

UnchangedByB ==
    UNCHANGED << aur_packages, cpu_count, enabled_sd_service_links,
                 broken_sd_service_links, package_ch, python_ch, main_pc,
                 python_pc, workerA, next_package, libmap, trans2, pacmap,
                 pacsourcemap, trans, ldd_output, parsed,
                    lookup_keys, fsvars >>

\* the work is finished without a step of the progress bar
NoInc(work) == 0

\* main.rs:360-362
LastInc(work) == IF work.package_last THEN 1 ELSE 0

\* main.rs:205-210,353-358  ldd could not be run, or did not exit with success
LddFailed(out) == ~ out.spawned \/ out.status # 0

\* main.rs:335-338,353-362  receive an artifact and run ldd on it; without
\* missing dependencies the item is finished at once
StageB_Recv(w) ==
    /\ workerB[w].pc = "recv"
    /\ CanRecv(exec_files_ch)
    /\ \E out \in LddAnswers(Head(exec_files_ch.q).exec_filepath) :
          LET work == Head(exec_files_ch.q)
              missing_deps == get_missing_dependencies(out)
              sending == missing_deps.ok /\ missing_deps.val # <<>>
          IN  /\ exec_files_ch' = Recv(exec_files_ch)
              /\ workerB' = [workerB EXCEPT ![w] =
                                IF sending
                                THEN [pc |-> "send", work |-> work,
                                      missing_deps |-> missing_deps.val]
                                ELSE IdleB]
              /\ progress' = IF sending THEN progress
                             ELSE Inc(progress, LastInc(work))
              /\ log' = [log EXCEPT
                            !.worked[work.package] = Append(@, work),
                            !.lddFailed =
                                IF LddFailed(out)
                                THEN @ \cup { [work |-> work,
                                               inc |-> progress'.pos - progress.pos] }
                                ELSE @,
                            !.incB[work.package] =
                                IF sending THEN @ ELSE @ + LastInc(work)]
    /\ UNCHANGED missing_deps_ch
    /\ UnchangedByB

\* main.rs:340-351,360-362  one iteration of the loop over the missing
\* dependencies: the owner query and the send; after the last one the item is
\* finished
StageB_Send(w) ==
    /\ workerB[w].pc = "send"
    /\ lookup_key(Head(workerB[w].missing_deps)).ok
    /\ \E out \in OwnerAnswers(lookup_key(Head(workerB[w].missing_deps)).val) :
          LET wk == workerB[w]
              to_send == [ package |-> wk.work.package,
                           file |-> wk.work.exec_filepath,
                           missing_dep |-> Head(wk.missing_deps),
                           pkg |-> Providers(out) ]
              more == SendOk(missing_deps_ch) /\ Tail(wk.missing_deps) # <<>>
          IN  /\ missing_deps_ch' = Send(missing_deps_ch, to_send)
              /\ workerB' = [workerB EXCEPT ![w] =
                                IF more THEN [wk EXCEPT !.missing_deps = Tail(@)]
                                ELSE IdleB]
              /\ progress' = IF more THEN progress
                             ELSE Inc(progress, LastInc(wk.work))
              /\ log' = [log EXCEPT
                            !.owner = @ \cup { << out, to_send.pkg >> },
                            !.sent = IF SendOk(missing_deps_ch)
                                     THEN Append(@, to_send) ELSE @,
                            !.incB[wk.work.package] =
                                IF more THEN @ ELSE @ + LastInc(wk.work)]
    /\ UNCHANGED exec_files_ch
    /\ UnchangedByB

\* main.rs:335,363  recv() fails: the worker returns and drops its handles
StageB_Exit(w) ==
    /\ workerB[w].pc = "recv"
    /\ Disconnected(exec_files_ch)
    /\ workerB' = [workerB EXCEPT ![w].pc = "done"]
    /\ exec_files_ch' = DropRx(exec_files_ch)
    /\ missing_deps_ch' = DropTx(missing_deps_ch)
    /\ UNCHANGED << progress, log >>
    /\ UnchangedByB

---------------------------------------------------------------------------
(* The probe thread: main.rs:280-302 *)

\* main.rs:282-299
ToSend(r) ==
    IF r.version.ok
    THEN IF r.packages.ok THEN r.packages.val ELSE <<>>
    ELSE <<>>

\* main.rs:290-298  one of the two queries of the probe failed
ProbeFails(r) == ~ r.version.ok \/ ~ r.packages.ok

\* the probe that sends nothing when it failed
ProbeSendOnSuccess ==
    /\ python_pc = "run"
    /\ \E r \in ProbeOutcomes :
          /\ python_ch' = IF ProbeFails(r) THEN DropTx(python_ch)
                          ELSE DropTx(Send(python_ch, ToSend(r)))
          /\ log' = [log EXCEPT !.probe = Append(@, ProbeFails(r)),
                                !.pySent = IF ~ ProbeFails(r) /\ SendOk(python_ch)
                                           THEN Append(@, ToSend(r)) ELSE @]
    /\ python_pc' = "done"
    /\ UNCHANGED << aur_packages, cpu_count, enabled_sd_service_links,
                    broken_sd_service_links, progress, package_ch,
                    exec_files_ch, missing_deps_ch, main_pc, workerA, workerB,
                    next_package, libmap, trans2, pacmap, pacsourcemap, trans,
                    ldd_output, parsed, lookup_keys, fsvars >>

\* main.rs:280-302  the thread computes its list, sends it and ends
ProbeSend ==
    /\ python_pc = "run"
    /\ \E r \in ProbeOutcomes :
          /\ python_ch' = DropTx(Send(python_ch, ToSend(r)))
          /\ log' = [log EXCEPT !.probe = Append(@, ProbeFails(r)),
                                !.pySent = IF SendOk(python_ch)
                                           THEN Append(@, ToSend(r)) ELSE @]
    /\ python_pc' = "done"
    /\ UNCHANGED << aur_packages, cpu_count, enabled_sd_service_links,
                    broken_sd_service_links, progress, package_ch,
                    exec_files_ch, missing_deps_ch, main_pc, workerA, workerB,
                    next_package, libmap, trans2, pacmap, pacsourcemap, trans,
                    ldd_output, parsed,
                    lookup_keys, fsvars >>

---------------------------------------------------------------------------
(* Aggregation: main.rs:444-466 *)

\* HashMap::entry(k).or_default()
OrDefault(m, k, d) == IF k \in DOMAIN m THEN m[k] ELSE d

\* HashMap::insert
Insert(m, k, v) == [x \in DOMAIN m \cup {k} |-> IF x = k THEN v ELSE m[x]]

\* the heap holds the file pushed last and no other
LibMapPushLatest(m, missing_dep, package, file) ==
    Insert(m, missing_dep,
           Insert(OrDefault(m, missing_dep, << >>), package, SetToBag({file})))

\* a file already in the heap is not pushed again
LibMapPushDedup(m, missing_dep, package, file) ==
    LET inner == OrDefault(m, missing_dep, << >>)
        heap == OrDefault(inner, package, EmptyBag)
    IN  Insert(m, missing_dep,
               Insert(inner, package,
                      IF BagIn(file, heap) THEN heap
                      ELSE heap (+) SetToBag({file})))

\* main.rs:451  the BinaryHeap of files is a bag
LibMapPush(m, missing_dep, package, file) ==
    LET inner == OrDefault(m, missing_dep, << >>)
        heap == OrDefault(inner, package, EmptyBag)
    IN  Insert(m, missing_dep, Insert(inner, package, heap (+) SetToBag({file})))

\* the soname replaces the set instead of joining it
PacMapOverwrite(m, package, missing_dep) == Insert(m, package, {missing_dep})

\* main.rs:453
PacMapInsert(m, package, missing_dep) ==
    Insert(m, package, OrDefault(m, package, {}) \cup {missing_dep})

\* the non-direct branch records nothing
Trans2Forget(t, package) == t

\* main.rs:455
Trans2Insert(t, package) == t \cup {package}

\* the first provider recorded for a soname is kept
PacSourceKeepFirst(m, missing_dep, pkg) ==
    IF pkg # <<>> /\ missing_dep \notin DOMAIN m
    THEN Insert(m, missing_dep, pkg[1]) ELSE m

\* main.rs:457-459
PacSourceInsert(m, missing_dep, pkg) ==
    IF pkg # <<>> THEN Insert(m, missing_dep, pkg[1]) ELSE m

\* the candidates are reported unfiltered
FilterTransNone(t2, pm) == t2

\* main.rs:461-466
FilterTrans(t2, pm) == { t \in t2 : t \notin DOMAIN pm }

\* main.rs:444-446  the aggregates before the loop
NoAggregates == [ libmap |-> << >>, pacmap |-> << >>, trans2 |-> {} ]

\* main.rs:450-456  the branch of one iteration, on the aggregates a, for
\* the delivery c of tuple c.t for which patchelf answers c.out
AggStep(a, c) ==
    IF IsDirect(c.out, c.t.missing_dep)
    THEN [ libmap |-> LibMapPush(a.libmap, c.t.missing_dep, c.t.package, c.t.file),
           pacmap |-> PacMapInsert(a.pacmap, c.t.package, c.t.missing_dep),
           trans2 |-> a.trans2 ]
    ELSE [ a EXCEPT !.trans2 = Trans2Insert(@, c.t.package) ]

\* main.rs:444-466  the loop over the deliveries cs in their order, and the
\* transitive filter
AggregateAll(cs) ==
    LET F[k \in 0..Len(cs)] ==
            IF k = 0 THEN NoAggregates ELSE AggStep(F[k - 1], cs[k])
        a == F[Len(cs)]
    IN  [ libmap |-> a.libmap, pacmap |-> a.pacmap,
          trans |-> FilterTrans(a.trans2, a.pacmap) ]

UnchangedByAgg ==
    UNCHANGED << aur_packages, cpu_count, enabled_sd_service_links,
                 broken_sd_service_links, progress, package_ch, exec_files_ch,
                 python_pc, workerA, workerB, next_package, ldd_output, parsed,
                    lookup_keys, fsvars >>

\* main.rs:448-460  one iteration of the loop over missing_deps_rx.iter(),
\* in which patchelf answers out
AggregateWith(out) ==
    /\ main_pc = "aggregate"
    /\ CanRecv(missing_deps_ch)
    /\    LET t == Head(missing_deps_ch.q)
              direct == IsDirect(out, t.missing_dep)
          IN  /\ libmap' = IF direct
                           THEN LibMapPush(libmap, t.missing_dep, t.package, t.file)
                           ELSE libmap
              /\ pacmap' = IF direct
                           THEN PacMapInsert(pacmap, t.package, t.missing_dep)
                           ELSE pacmap
              /\ trans2' = IF direct THEN trans2
                           ELSE Trans2Insert(trans2, t.package)
              /\ pacsourcemap' = PacSourceInsert(pacsourcemap, t.missing_dep, t.pkg)
              /\ log' = [log EXCEPT !.consumed =
                            Append(@, [t |-> t, out |-> out, direct |-> direct])]
    /\ missing_deps_ch' = Recv(missing_deps_ch)
    /\ UNCHANGED << main_pc, python_ch, trans >>
    /\ UnchangedByAgg

\* the iteration on the installed system of the whole run
Aggregate ==
    /\ CanRecv(missing_deps_ch)
    /\ \E out \in PatchelfAnswers(Head(missing_deps_ch.q)) : AggregateWith(out)

\* the iteration, whatever patchelf answers
AggregateAny == \E out \in PatchelfOutcomes : AggregateWith(out)

\* main.rs:448,461-466  the iterator ends; the transitive set is filtered
FilterTransitive ==
    /\ main_pc = "aggregate"
    /\ Disconnected(missing_deps_ch)
    /\ trans' = FilterTrans(trans2, pacmap)
    /\ main_pc' = "python"
    /\ UNCHANGED << missing_deps_ch, python_ch, libmap, trans2, pacmap,
                    pacsourcemap, log >>
    /\ UnchangedByAgg

\* main.rs:559-582  the last receive, and main returns
RecvPython ==
    /\ main_pc = "python"
    /\ \/ /\ CanRecv(python_ch)
          /\ python_ch' = DropRx(Recv(python_ch))
          /\ log' = [log EXCEPT !.pyRecv = Append(@, Head(python_ch.q))]
       \/ /\ Disconnected(python_ch)
          /\ python_ch' = DropRx(python_ch)
          /\ log' = log
    /\ main_pc' = "done"
    /\ UNCHANGED << missing_deps_ch, libmap, trans2, pacmap, pacsourcemap,
                    trans >>
    /\ UnchangedByAgg

---------------------------------------------------------------------------
(* The run of main() *)

\* the file-listing step and the file system are not looked at
NoFiles ==
    /\ fs = << >>
    /\ cwd = << "/" >>
    /\ pacman_output = SpawnErr
    /\ linked_files = <<>>

LinkNames == << "a.service", "b.service", "c.service" >>

Init ==
    /\ \E n \in 0..MaxPackages : aur_packages = SubSeq(PackageNames, 1, n)
    /\ cpu_count \in 1..MaxCpu
    /\ enabled_sd_service_links = SubSeq(LinkNames, 1, MaxLinks)
    /\ broken_sd_service_links = <<>>
    /\ progress = [pos |-> 0,
                   len |-> Len(aur_packages) + Len(enabled_sd_service_links)]
    /\ package_ch = NoChannel
    /\ exec_files_ch = NoChannel
    /\ missing_deps_ch = Channel(1, 1)
    /\ python_ch = Channel(1, 1)
    /\ main_pc = "spawn_b"
    /\ python_pc = "run"
    /\ workerA = << >>
    /\ workerB = << >>
    /\ next_package = 1
    /\ libmap = << >>
    /\ trans2 = {}
    /\ pacmap = << >>
    /\ pacsourcemap = << >>
    /\ trans = {}
    /\ log = NoLog
    /\ ldd_output = SpawnErr
    /\ parsed = <<>>
    /\ lookup_keys = <<>>
    /\ NoFiles

Next ==
    \/ SpawnStageB
    \/ SpawnStageA
    \/ SendPackage
    \/ EndInnerScope
    \/ JoinStageA
    \/ ServiceLinkScan
    \/ JoinStageB
    \/ Aggregate
    \/ FilterTransitive
    \/ RecvPython
    \/ ProbeSend
    \/ \E w \in DOMAIN workerA : StageA_Recv(w) \/ StageA_Send(w) \/ StageA_Exit(w)
    \/ \E w \in DOMAIN workerB : StageB_Recv(w) \/ StageB_Send(w) \/ StageB_Exit(w)

Spec == Init /\ [][Next]_vars

\* Each thread that can take a step eventually takes one: the operating
\* system schedules every runnable thread, and every call returns.
FairSpec == Init /\ [][Next]_vars /\ WF_vars(Next)

---------------------------------------------------------------------------
(* Aggregation on its own: the coordinator at main.rs:448 with the pipeline *)
(* drained, for every queue of at most MaxTuples tuples                     *)

AggPackages == << "demo", "foo" >>

\* the artifacts a package can have sent
AggFiles(package) == IF package = "demo" THEN { UsrBinA, UsrLibSo } ELSE { UsrBinA }

\* the provider lists a tuple can carry
AggProviders == { <<>>, << "f" >>, << "g", "f" >> }

AggTuples ==
    { t \in [package : Range(AggPackages), file : { UsrBinA, UsrLibSo },
             missing_dep : Sonames, pkg : AggProviders] :
        t.file \in AggFiles(t.package) }

SeqsUpTo(S, n) == UNION { [1..k -> S] : k \in 0..n }

InitAgg ==
    /\ aur_packages = AggPackages
    /\ cpu_count = 1
    /\ enabled_sd_service_links = <<>>
    /\ broken_sd_service_links = <<>>
    /\ progress = [pos |-> Len(AggPackages), len |-> Len(AggPackages)]
    /\ package_ch = NoChannel
    /\ exec_files_ch = NoChannel
    /\ \E q \in SeqsUpTo(AggTuples, MaxTuples) :
          missing_deps_ch = [q |-> q, tx |-> 0, rx |-> 1]
    /\ python_ch = [q |-> << <<>> >>, tx |-> 0, rx |-> 1]
    /\ main_pc = "aggregate"
    /\ python_pc = "done"
    /\ workerA = << [IdleA EXCEPT !.pc = "done"] >>
    /\ workerB = << [IdleB EXCEPT !.pc = "done"] >>
    /\ next_package = Len(AggPackages) + 1
    /\ libmap = << >>
    /\ trans2 = {}
    /\ pacmap = << >>
    /\ pacsourcemap = << >>
    /\ trans = {}
    /\ log = NoLog
    /\ ldd_output = SpawnErr
    /\ parsed = <<>>
    /\ lookup_keys = <<>>
    /\ NoFiles

NextAgg ==
    \/ AggregateAny
    \/ FilterTransitive

SpecAgg == InitAgg /\ [][NextAgg]_vars

---------------------------------------------------------------------------
(* get_missing_dependencies on its own, for every ldd output of at most    *)
(* MaxLines lines                                                          *)

Indents == { <<>>, << "\t" >>, << " " >>, << "\t", " " >> }
Tokens == { LibA1, << "/", "l" >>, << "d","/","a",".","s","o",".","s","o" >> }
Rests == { NotFoundTail, FoundTail, << "\t" >> \o Tail(NotFoundTail), <<>> }

LddLines == { i \o t \o r : i \in Indents, t \in Tokens, r \in Rests }

InitParse ==
    /\ ldd_output \in
          { SpawnErr } \cup
          { Output(st, out) : st \in {0, 1}, out \in SeqsUpTo(LddLines, MaxLines) }
    /\ parsed = <<>>
    /\ lookup_keys = <<>>
    /\ NoFiles
    /\ aur_packages = <<>>
    /\ cpu_count = 1
    /\ enabled_sd_service_links = <<>>
    /\ broken_sd_service_links = <<>>
    /\ progress = [pos |-> 0, len |-> 0]
    /\ package_ch = NoChannel
    /\ exec_files_ch = NoChannel
    /\ missing_deps_ch = NoChannel
    /\ python_ch = NoChannel
    /\ main_pc = "parse"
    /\ python_pc = "done"
    /\ workerA = << >>
    /\ workerB = << >>
    /\ next_package = 1
    /\ libmap = << >>
    /\ trans2 = {}
    /\ pacmap = << >>
    /\ pacsourcemap = << >>
    /\ trans = {}
    /\ log = NoLog

\* main.rs:337  the call of get_missing_dependencies
Parse ==
    /\ main_pc = "parse"
    /\ parsed = <<>>
    /\ parsed' = << get_missing_dependencies(ldd_output) >>
    /\ UNCHANGED << aur_packages, cpu_count, enabled_sd_service_links,
                    broken_sd_service_links, progress, package_ch,
                    exec_files_ch, missing_deps_ch, python_ch, main_pc,
                    python_pc, workerA, workerB, next_package, libmap, trans2,
                    pacmap, pacsourcemap, trans, log, ldd_output,
                    lookup_keys, fsvars >>

\* main.rs:340-345  the key of the owner query of every missing dependency
DeriveKeys ==
    /\ main_pc = "parse"
    /\ parsed # <<>>
    /\ parsed[1].ok
    /\ lookup_keys = <<>>
    /\ lookup_keys' = << [k \in 1..Len(parsed[1].val) |-> lookup_key(parsed[1].val[k])] >>
    /\ UNCHANGED << aur_packages, cpu_count, enabled_sd_service_links,
                    broken_sd_service_links, progress, package_ch,
                    exec_files_ch, missing_deps_ch, python_ch, main_pc,
                    python_pc, workerA, workerB, next_package, libmap, trans2,
                    pacmap, pacsourcemap, trans, log, ldd_output, parsed,
                    fsvars >>

NextParse == Parse \/ DeriveKeys

SpecParse == InitParse /\ [][NextParse]_vars

---------------------------------------------------------------------------
(* get_package_linked_files on its own, for every listing of at most       *)
(* MaxLines paths and every file system over those paths                    *)

\* the worker pools and the aggregation, not started
NoPipeline ==
    /\ aur_packages = <<>>
    /\ cpu_count = 1
    /\ package_ch = NoChannel
    /\ missing_deps_ch = NoChannel
    /\ python_ch = NoChannel
    /\ python_pc = "done"
    /\ workerA = << >>
    /\ workerB = << >>
    /\ next_package = 1
    /\ libmap = << >>
    /\ trans2 = {}
    /\ pacmap = << >>
    /\ pacsourcemap = << >>
    /\ trans = {}
    /\ log = NoLog
    /\ ldd_output = SpawnErr
    /\ parsed = <<>>
    /\ lookup_keys = <<>>

UsrBinL == << "/","u","s","r","/","b","i","n","/","l" >>
UsrBinAB == << "/","u","s","r","/","b","i","n","/","a"," ","b" >>
UsrBin == << "/","u","s","r","/","b","i","n","/" >>
UsrLibDSo == << "/","u","s","r","/","l","i","b","/","d","/","a",".","s","o" >>
RootA == << "/","a" >>

\* the paths pacman -Ql can list for the package
ListedPaths == { UsrBinA, UsrLibSo, UsrLibDSo, UsrBinL, UsrBinAB, UsrBin }

\* "<package> <path>", a line of pacman -Ql
ListingLine(path) == << "d","e","m","o"," " >> \o path

\* the file systems: /usr/bin/a is anything, /usr/lib/a.so a file or gone,
\* /usr/bin/l a link (absolute, relative, to itself, to a directory), /a (the
\* file a relative link names, seen from the working directory /) may exist
FileSystems ==
    { (UsrBinA :> a) @@ (UsrLibSo :> so) @@ (UsrLibDSo :> File(420))
      @@ (UsrBinL :> l) @@ (UsrBinAB :> File(493)) @@ (UsrBin :> Dir)
      @@ (RootA :> r) :
        a \in { File(493), File(420), File(421), Dir, Absent },
        so \in { File(420), File(493), Absent },
        l \in { Link(UsrBinA), Link(<< "a" >>), Link(UsrLibSo), Link(UsrBinL),
                Link(UsrBin) },
        r \in { Absent, File(493) } }

InitList ==
    /\ fs \in FileSystems
    /\ cwd = << "/" >>
    /\ pacman_output \in
          { SpawnErr, Output(1, <<>>) } \cup
          { Output(0, [k \in 1..Len(ps) |-> ListingLine(ps[k])]) :
                ps \in SeqsUpTo(ListedPaths, MaxLines) }
    /\ linked_files = <<>>
    /\ enabled_sd_service_links = <<>>
    /\ broken_sd_service_links = <<>>
    /\ main_pc = "list"
    /\ progress = [pos |-> 0, len |-> 0]
    /\ exec_files_ch = NoChannel
    /\ NoPipeline

\* main.rs:382  the call of get_package_linked_files
ListFiles ==
    /\ main_pc = "list"
    /\ linked_files = <<>>
    /\ linked_files' = << get_package_linked_files(pacman_output) >>
    /\ UNCHANGED << aur_packages, cpu_count, enabled_sd_service_links,
                    broken_sd_service_links, progress, package_ch,
                    exec_files_ch, missing_deps_ch, python_ch, main_pc,
                    python_pc, workerA, workerB, next_package, libmap, trans2,
                    pacmap, pacsourcemap, trans, log, ldd_output, parsed,
                    lookup_keys, fs, cwd, pacman_output >>

NextList == ListFiles

SpecList == InitList /\ [][NextList]_vars

---------------------------------------------------------------------------
(* The service-link scan on its own, for every file system over two enabled *)
(* links                                                                    *)

\* /w/ stands for a *.target.wants directory, /u/ for the unit directory
WantsX == << "/","w","/","x" >>
WantsY == << "/","w","/","y" >>
WantsS == << "/","w","/","s" >>
UnitS == << "/","u","/","s" >>
UnitDir == << "/","u","/" >>
RootS == << "/","s" >>

\* the enabled link x points at the unit file by its absolute path, at its
\* sibling s by a relative path, at the link y or at a directory; the link y
\* points at the unit file or at itself; the files may be gone
LinkFileSystems ==
    { (WantsX :> x) @@ (WantsY :> y) @@ (WantsS :> ws) @@ (UnitS :> us)
      @@ (UnitDir :> Dir) @@ (RootS :> rs) :
        x \in { Link(UnitS), Link(<< "s" >>), Link(WantsY), Link(UnitDir) },
        y \in { Link(UnitS), Link(WantsY) },
        ws \in { File(420), Absent },
        us \in { File(420), Absent },
        rs \in { File(420), Absent } }

InitLinks ==
    /\ fs \in LinkFileSystems
    /\ cwd \in { << "/" >>, << "/","w","/" >> }
    /\ pacman_output = SpawnErr
    /\ linked_files = <<>>
    /\ enabled_sd_service_links = << WantsX, WantsY >>
    /\ broken_sd_service_links = <<>>
    /\ main_pc = "links"
    /\ progress = [pos |-> 0, len |-> Len(enabled_sd_service_links)]
    /\ exec_files_ch = [q |-> <<>>, tx |-> 0, rx |-> 1]
    /\ NoPipeline

NextLinks == ServiceLinkScanFs

SpecLinks == InitLinks /\ [][NextLinks]_vars

---------------------------------------------------------------------------
(* Claims *)

\* progress.inc calls made for package p
Incs(p) == log.incA[p] + log.incB[p]

\* both scopes have returned: every Stage A and Stage B worker was joined
Drained == main_pc \in { "aggregate", "python", "done" }

\* the inner scope has returned: every Stage A worker was joined
StageADone == main_pc \in { "links", "join_b", "aggregate", "python", "done" }

\* C1: once both scopes have returned, the progress bar was advanced exactly
\* |packages| + |enabled service links| times: once for every package and
\* once for every link.
C1_ProgressExact ==
    Drained =>
        /\ progress.pos = Len(aur_packages) + Len(enabled_sd_service_links)
        /\ \A p \in Range(aur_packages) : Incs(p) = 1
        /\ log.incLinks = Len(enabled_sd_service_links)

\* p was listed and every artifact of the listing is blacklisted
AllBlacklisted(p) ==
    /\ Len(log.listed[p]) = 1
    /\ log.listed[p][1].ok
    /\ log.listed[p][1].val # <<>>
    /\ FilteredExecFiles(log.listed[p][1].val) = <<>>

\* C2: for a package whose artifacts are all blacklisted, Stage A sends no
\* ExecFileWork and the progress bar advances exactly once for the package.
C2_AllBlacklistedOnce ==
    \A p \in Range(aur_packages) :
        Drained /\ AllBlacklisted(p) => log.emitted[p] = <<>> /\ Incs(p) = 1

\* C3: for every package Stage A sent an ExecFileWork for, package_last is
\* true on exactly one message, the last one sent for the package.
C3_ExactlyOneLast ==
    \A p \in Range(aur_packages) :
        LET sent == log.emitted[p]
        IN  StageADone /\ sent # <<>> =>
                \A k \in 1..Len(sent) : sent[k].package_last <=> k = Len(sent)

\* C4: a tuple whose owner query printed nothing carries the providers
\* ["?"], and no tuple carries an empty list of providers.
C4_QuestionMarkOnEmpty ==
    /\ \A e \in log.owner :
          /\ e[1].spawned /\ e[1].stdout = <<>> => e[2] = << "?" >>
          /\ e[2] # <<>>
    /\ \A k \in 1..Len(missing_deps_ch.q) : missing_deps_ch.q[k].pkg # <<>>

\* patchelf could not be run, or exited with a status other than 0
PatchelfFailed(out) == ~ out.spawned \/ out.status # 0

\* C5: a tuple for which patchelf is absent or fails is classified direct:
\* its artifact is in LibMap[soname][package] and its soname in
\* PacMap[package].
C5_FailureIsDirect ==
    \A k \in 1..Len(log.consumed) :
        LET c == log.consumed[k]
        IN  PatchelfFailed(c.out) =>
                /\ c.direct
                /\ c.t.missing_dep \in DOMAIN libmap
                /\ c.t.package \in DOMAIN libmap[c.t.missing_dep]
                /\ BagIn(c.t.file, libmap[c.t.missing_dep][c.t.package])
                /\ c.t.package \in DOMAIN pacmap
                /\ c.t.missing_dep \in pacmap[c.t.package]

\* the transitive filter has run
Aggregated == main_pc \in { "python", "done" }

InPacMap(p, s) == p \in DOMAIN pacmap /\ s \in pacmap[p]

HasDirect(p) ==
    \E k \in 1..Len(log.consumed) :
        log.consumed[k].t.package = p /\ log.consumed[k].direct

HasNonDirect(p) ==
    \E k \in 1..Len(log.consumed) :
        log.consumed[k].t.package = p /\ ~ log.consumed[k].direct

C7_Disjoint == Aggregated => DOMAIN pacmap \cap trans = {}

\* the filter removed a candidate
C7_Witness ==
    /\ Aggregated
    /\ trans2 \cap DOMAIN pacmap # {}
    /\ trans = {}

DirectSonames(p) ==
    { log.consumed[k].t.missing_dep :
        k \in { j \in 1..Len(log.consumed) :
                  log.consumed[j].t.package = p /\ log.consumed[j].direct } }

\* C8: after aggregation p is in TransitiveSet iff some tuple of p was
\* classified non-direct and none direct; such a package is in no map; a
\* package with a direct miss is a key of PacMap, with exactly the sonames
\* it misses directly.
C8_TransitiveIff ==
    Aggregated =>
        \A p \in Range(aur_packages) :
            /\ p \in trans <=> HasNonDirect(p) /\ ~ HasDirect(p)
            /\ p \in trans =>
                  /\ p \notin DOMAIN pacmap
                  /\ \A s \in DOMAIN libmap : p \notin DOMAIN libmap[s]
            /\ HasDirect(p) =>
                  /\ p \in DOMAIN pacmap
                  /\ pacmap[p] = DirectSonames(p)
            /\ p \in DOMAIN pacmap => HasDirect(p)

\* one package is transitively broken, another misses a soname directly
C8_Witness ==
    /\ Aggregated
    /\ trans # {}
    /\ DOMAIN pacmap # {}

\* the ends of the claim about the ldd output, computed apart from the code
SkipWhitespace(s) ==
    LET F[k \in 0..Len(s)] ==
            IF k = Len(s) \/ ~ IsWhitespace(s[k + 1]) THEN k ELSE F[k + 1]
    IN  SubSeq(s, F[0] + 1, Len(s))

TokenLen(s) ==
    LET F[k \in 0..Len(s)] ==
            IF k = Len(s) \/ IsWhitespace(s[k + 1]) THEN k ELSE F[k + 1]
    IN  F[0]

\* the first whitespace-delimited token of a line
FirstToken(l) == SubSeq(SkipWhitespace(l), 1, TokenLen(SkipWhitespace(l)))

EndsNotFound(l) ==
    EndsWith(l, << "=",">"," ","n","o","t"," ","f","o","u","n","d" >>)

\* the format ldd prints: the line is indented with tabs and a space follows
\* its first token
Canonical(l) ==
    LET body == SkipWhitespace(l)
        n == TokenLen(body)
    IN  /\ \A k \in 1..(Len(l) - Len(body)) : l[k] = "\t"
        /\ n < Len(body) => body[n + 1] = " "

ExpectedSonames(out) ==
    LET nf == SelectSeq(out.stdout, EndsNotFound)
    IN  [k \in 1..Len(nf) |-> FirstToken(nf[k])]

ParsedOk ==
    /\ parsed # <<>>
    /\ ldd_output.spawned
    /\ ldd_output.status = 0

\* C9: when ldd exits successfully, get_missing_dependencies returns, in
\* order, the first whitespace-delimited token of every line that ends with
\* "=> not found", and nothing for the other lines.
C9_FirstTokens ==
    ParsedOk => parsed[1].ok /\ parsed[1].val = ExpectedSonames(ldd_output)

\* C9 as amended: the same, for output whose "=> not found" lines are in the
\* format ldd prints (indented with tabs, a space after the soname).
C9_FirstTokensCanonical ==
    ParsedOk /\ (\A k \in 1..Len(ldd_output.stdout) :
                    EndsNotFound(ldd_output.stdout[k])
                        => Canonical(ldd_output.stdout[k]))
        => parsed[1].ok /\ parsed[1].val = ExpectedSonames(ldd_output)

\* a tab-indented missing soname was extracted and a resolved line was skipped
C9_Witness ==
    /\ ParsedOk
    /\ parsed[1].val = << LibA1 >>
    /\ ldd_output.stdout = << << "\t" >> \o LibA1 \o FoundTail, NotFoundLine(LibA1) >>

AllExited ==
    /\ main_pc = "done"
    /\ python_pc = "done"
    /\ \A w \in DOMAIN workerA : workerA[w].pc = "done"
    /\ \A w \in DOMAIN workerB : workerB[w].pc = "done"

\* C10: the run terminates: every Stage A worker, every Stage B worker and
\* the coordinator leave their receive loops and main returns.
C10_Terminates == <>[]AllExited

\* a run with a package and a consumed tuple has come to its end
C10_Witness ==
    /\ AllExited
    /\ aur_packages # <<>>
    /\ log.consumed # <<>>


\* the path of a line of pacman -Ql: what follows the package name
PathOfLine(l) == AfterFirst(l, " ")

\* the one-hop link target of an owned path, or the path when it is no link
Replaced(path) ==
    IF NodeAt(path).kind = "link" THEN NodeAt(path).target ELSE path

RECURSIVE Slashes(_)
Slashes(p) ==
    IF p = <<>> THEN 0 ELSE (IF Head(p) = "/" THEN 1 ELSE 0) + Slashes(Tail(p))

\* owner, group or other may execute
HasExecBit(mode) ==
    \/ (mode \div 64) % 2 = 1
    \/ (mode \div 8) % 2 = 1
    \/ mode % 2 = 1

\* the stat'd file of p is regular and executable, or regular and p is a
\* three-slash ".so"
Survives(p) ==
    /\ metadata(p).ok
    /\ metadata(p).val.kind = "file"
    /\ \/ HasExecBit(metadata(p).val.mode)
       \/ Slashes(p) = 3 /\ Len(p) >= 3 /\ SubSeq(p, Len(p) - 2, Len(p)) = << ".", "s", "o" >>

ExpectedFiles ==
    LET owned == [k \in 1..Len(pacman_output.stdout) |->
                      Replaced(PathOfLine(pacman_output.stdout[k]))]
    IN  SelectSeq(owned, Survives)

Listed ==
    /\ linked_files # <<>>
    /\ pacman_output.spawned
    /\ pacman_output.status = 0

HasSpace(l) == " " \in Range(PathOfLine(l))

\* C11: the artifacts get_package_linked_files returns are exactly the owned
\* paths, each replaced by its one-hop link target when it is a link, whose
\* stat'd file is regular and has an execute bit or is a three-slash ".so",
\* in listing order.
C11_ListedExactly ==
    Listed => linked_files[1] = Ok(ExpectedFiles)

\* the same for listings in which no owned path holds a space
C11_ListedExactlyNoSpace ==
    Listed /\ (\A k \in 1..Len(pacman_output.stdout) :
                  ~ HasSpace(pacman_output.stdout[k]))
        => linked_files[1] = Ok(ExpectedFiles)


\* the part of s after its final "/"
Basename(s) ==
    LET at == { k \in 1..Len(s) : s[k] = "/" }
    IN  IF at = {} THEN s
        ELSE SubSeq(s, (CHOOSE k \in at : \A j \in at : j <= k) + 1, Len(s))

\* b cut off right after its first ".so"
CutAfterSo(b) ==
    LET ends == { k \in 3..Len(b) : SubSeq(b, k - 2, k) = << ".", "s", "o" >> }
    IN  IF ends = {} THEN b
        ELSE SubSeq(b, 1, CHOOSE k \in ends : \A j \in ends : k <= j)

KeysDerived == lookup_keys # <<>>

\* C12: the key of the owner query is the soname's basename cut off right
\* after its first ".so", and the derivation is defined (does not panic) for
\* every soname get_missing_dependencies returns.
C12_KeyDerived ==
    KeysDerived =>
        \A k \in 1..Len(lookup_keys[1]) :
            /\ lookup_keys[1][k].ok
            /\ lookup_keys[1][k].val = CutAfterSo(Basename(parsed[1].val[k]))

\* the same for the sonames that do not end their basename at once
C12_KeyDerivedNonEmpty ==
    KeysDerived =>
        \A k \in 1..Len(lookup_keys[1]) :
            Basename(parsed[1].val[k]) # <<>> =>
                /\ lookup_keys[1][k].ok
                /\ lookup_keys[1][k].val = CutAfterSo(Basename(parsed[1].val[k]))


\* the chain of links that starts at the link ends at an existing node
TargetExists(link) == Follow(link, Cardinality(DOMAIN fs)).kind # "absent"

\* how often the link is in the report
Reported(link) ==
    Cardinality({ k \in 1..Len(broken_sd_service_links) :
                    broken_sd_service_links[k] = link })

Scanned == main_pc = "join_b"

\* C13: after the scan, an enabled link is in the report of broken links,
\* once, if and only if its ultimate target does not exist.
C13_BrokenIffGone ==
    Scanned =>
        \A k \in 1..Len(enabled_sd_service_links) :
            LET link == enabled_sd_service_links[k]
            IN  /\ Reported(link) <= 1
                /\ Reported(link) = 1 <=> ~ TargetExists(link)

\* the same for the links that hold an absolute path
C13_BrokenIffGoneAbsolute ==
    Scanned =>
        \A k \in 1..Len(enabled_sd_service_links) :
            LET link == enabled_sd_service_links[k]
            IN  Head(NodeAt(link).target) = "/" =>
                    /\ Reported(link) <= 1
                    /\ Reported(link) = 1 <=> ~ TargetExists(link)


\* what the run reports besides the list of the probe
Outputs == << libmap, pacmap, trans, broken_sd_service_links >>

ProbeFailed == log.probe # <<>> /\ log.probe[1]

\* the probe has sent one message when it has ended, the empty list when it
\* failed, and main has received that message when it has returned
ProbeOnce ==
    /\ Len(log.pySent) <= 1
    /\ python_pc = "done" => Len(log.pySent) = 1
    /\ ProbeFailed /\ python_pc = "done" => log.pySent = << <<>> >>
    /\ main_pc = "done" => log.pyRecv = log.pySent /\ Len(log.pyRecv) = 1

\* a step of the probe leaves the other outputs as they are, and no other
\* step depends on what the probe did: the coordinator only takes its message
ProbeApart ==
    /\ python_pc' # python_pc =>
          UNCHANGED << Outputs, trans2, pacsourcemap, progress, main_pc,
                       package_ch, exec_files_ch, missing_deps_ch,
                       workerA, workerB >>
    /\ log'.pyRecv # log.pyRecv => UNCHANGED Outputs

AggregationBegun == main_pc \in { "aggregate", "python", "done" }

\* every worker of both pools has returned, the scan is over and nothing is
\* left in the package and artifact queues
PipelineOver ==
    /\ \A w \in DOMAIN workerA : workerA[w].pc = "done"
    /\ \A w \in DOMAIN workerB : workerB[w].pc = "done"
    /\ log.incLinks = Len(enabled_sd_service_links)
    /\ package_ch.q = <<>>
    /\ exec_files_ch.q = <<>>
    /\ missing_deps_ch.tx = 0

\* once aggregation has begun no tuple is enqueued and the progress bar
\* stays as it is
NothingAfterBegin ==
    AggregationBegun =>
        /\ progress' = progress
        /\ \/ missing_deps_ch'.q = missing_deps_ch.q
           \/ /\ missing_deps_ch.q # <<>>
              /\ missing_deps_ch'.q = Tail(missing_deps_ch.q)

\* C15: the coordinator consumes its first tuple only after every Stage A
\* and Stage B worker has exited and the service-link scan has finished; no
\* tuple is enqueued and no progress increment occurs after that.
C15_AggregationAfterDrain ==
    /\ [](log.consumed # <<>> => AggregationBegun)
    /\ [](AggregationBegun => PipelineOver)
    /\ [][NothingAfterBegin]_vars

\* a tuple was consumed while another one waits in the queue
C15_Witness ==
    /\ main_pc = "aggregate"
    /\ log.consumed # <<>>
    /\ missing_deps_ch.q # <<>>
    /\ progress.pos > 0


\* the tuples the coordinator has consumed, in the order of their lines
ConsumedTuples == [k \in 1..Len(log.consumed) |-> log.consumed[k].t]

\* the package was handed to the package queue
PackageSent(p) == \E k \in 1..(next_package - 1) : aur_packages[k] = p

\* the messages for package p that wait in the queue q of names / of works
WaitingNames(p) == SelectSeq(package_ch.q, LAMBDA m : m = p)
WaitingWork(p) == SelectSeq(exec_files_ch.q, LAMBDA m : m.package = p)

InBlacklist(path) ==
    \/ StartsWith(path, << "/","o","p","t","/" >>)
    \/ StartsWith(path, << "/","u","s","r","/","s","h","a","r","e","/" >>)

\* the paths of the works sent for package p, in the order they were sent
EmittedPaths(p) == [k \in 1..Len(log.emitted[p]) |-> log.emitted[p][k].exec_filepath]

\* C17: no ExecFileWork on the artifact queue has a path that begins with
\* "/opt/" or "/usr/share/", and once Stage A is over every other artifact
\* of a listed package was sent exactly once, in listing order.
C17_NoBlacklistedWork ==
    /\ \A k \in 1..Len(exec_files_ch.q) : ~ InBlacklist(exec_files_ch.q[k].exec_filepath)
    /\ \A p \in Range(aur_packages) :
          /\ \A k \in 1..Len(log.emitted[p]) : ~ InBlacklist(EmittedPaths(p)[k])
          /\ StageADone /\ log.listed[p][1].ok =>
                EmittedPaths(p) =
                    SelectSeq(log.listed[p][1].val, LAMBDA path : ~ InBlacklist(path))

\* a package that mixes a blacklisted artifact and another one had the other
\* one sent
C17_Witness ==
    /\ StageADone
    /\ \E p \in Range(aur_packages) :
          /\ log.listed[p][1].ok
          /\ \E k \in 1..Len(log.listed[p][1].val) : InBlacklist(log.listed[p][1].val[k])
          /\ Len(log.emitted[p]) = 1


\* the listing of package p was asked for and failed
ListingFailed(p) == log.listed[p] # <<>> /\ ~ log.listed[p][1].ok

TupleSentFor(work) ==
    \E k \in 1..Len(log.sent) :
        /\ log.sent[k].package = work.package
        /\ log.sent[k].file = work.exec_filepath

\* C19: when ldd cannot be run or exits without success for an artifact,
\* Stage B sends no tuple for it, advances the progress bar once if the
\* artifact is flagged package_last (and not otherwise), and goes back to its
\* receive: it ends only when the artifact queue is closed and empty.
C19_LddFailureSkipped ==
    /\ \A e \in log.lddFailed :
          /\ ~ TupleSentFor(e.work)
          /\ e.work.package_last => e.inc = 1 /\ log.incB[e.work.package] = 1
          /\ ~ e.work.package_last => e.inc = 0
    /\ \A w \in DOMAIN workerB :
          workerB[w].pc = "done" => exec_files_ch.q = <<>> /\ exec_files_ch.tx = 0
    /\ Drained => \A p \in Range(aur_packages) : log.worked[p] = log.emitted[p]

\* ldd failed on an artifact flagged package_last, the progress bar has
\* advanced for it, and the worker waits for the next artifact
C19_Witness ==
    /\ \E e \in log.lddFailed : e.work.package_last /\ e.inc = 1
    /\ \E w \in DOMAIN workerB : workerB[w].pc = "recv"
    /\ log.sent = <<>>


\* the positions of the consumed tuples for soname s that carry a provider
WithProvider(s) ==
    { k \in 1..Len(log.consumed) :
        log.consumed[k].t.missing_dep = s /\ Len(log.consumed[k].t.pkg) > 0 }

LastOf(S) == CHOOSE k \in S : \A j \in S : j <= k

\* C20: PacSourceMap has an entry for a soname exactly when a consumed tuple
\* for that soname carried a non-empty provider list, and the entry is the
\* first provider of the last such tuple, direct or not.
C20_PacSourceLastWins ==
    /\ \A s \in DOMAIN pacsourcemap : WithProvider(s) # {}
    /\ \A s \in Sonames :
          WithProvider(s) # {} =>
              /\ s \in DOMAIN pacsourcemap
              /\ pacsourcemap[s] = Head(log.consumed[LastOf(WithProvider(s))].t.pkg)

\* two tuples for one soname were consumed, a direct one and a non-direct
\* one, with different first providers: the entry is that of the second
C20_Witness ==
    \E s \in Sonames :
        /\ Cardinality(WithProvider(s)) = 2
        /\ \E j, k \in WithProvider(s) :
              /\ j < k
              /\ log.consumed[j].direct # log.consumed[k].direct
              /\ Head(log.consumed[j].t.pkg) # Head(log.consumed[k].t.pkg)
              /\ pacsourcemap[s] = Head(log.consumed[k].t.pkg)

---------------------------------------------------------------------------
\* the sum of the values of a function to the naturals
RECURSIVE SumOf(_)
SumOf(f) ==
    IF DOMAIN f = {} THEN 0
    ELSE LET k == CHOOSE x \in DOMAIN f : TRUE
         IN  f[k] + SumOf([x \in DOMAIN f \ {k} |-> f[x]])

\* the artifact entries held by LibMap, duplicates counted
LibMapEntries ==
    SumOf([s \in DOMAIN libmap |->
              SumOf([p \in DOMAIN libmap[s] |-> BagCardinality(libmap[s][p])])])

\* the tuples classified direct so far
DirectSoFar ==
    Cardinality({ k \in 1..Len(log.consumed) : log.consumed[k].direct })

InLibMap(s, p) == s \in DOMAIN libmap /\ p \in DOMAIN libmap[s]

\* every soname and every package either map speaks of
MapSonames == DOMAIN libmap \cup UNION { pacmap[p] : p \in DOMAIN pacmap }
MapPackages == DOMAIN pacmap \cup UNION { DOMAIN libmap[s] : s \in DOMAIN libmap }

\* C21: after every iteration of the aggregation loop LibMap and PacMap
\* index the same relation: every key of LibMap maps to at least one package,
\* every LibMap[s][p] holds at least one artifact, p is a key of LibMap[s]
\* iff s is in PacMap[p], and LibMap holds as many artifact entries as tuples
\* were classified direct so far, duplicates kept.
C21_SameRelation ==
    /\ \A s \in DOMAIN libmap :
          /\ DOMAIN libmap[s] # {}
          /\ \A p \in DOMAIN libmap[s] : BagCardinality(libmap[s][p]) >= 1
    /\ \A s \in MapSonames : \A p \in MapPackages :
          InLibMap(s, p) <=> InPacMap(p, s)
    /\ LibMapEntries = DirectSoFar

\* the same artifact was pushed twice for one soname and package, and the
\* loop has come to its end
C21_Witness ==
    /\ main_pc = "python"
    /\ \E s \in DOMAIN libmap : \E p \in DOMAIN libmap[s] :
          \E f \in BagToSet(libmap[s][p]) : CopiesIn(f, libmap[s][p]) = 2

---------------------------------------------------------------------------
\* the progress.inc calls made for the packages
PackageIncs == SumOf([p \in Range(aur_packages) |-> Incs(p)])

\* C22: in every reachable state the progress counter is at most
\* |packages| + |enabled service links|: every package makes at most one
\* increment, by Stage A (listing failed or empty) or by Stage B (the one
\* message flagged last), never by both, and the links are added once.
C22_ProgressBounded ==
    /\ progress.pos <= Len(aur_packages) + Len(enabled_sd_service_links)
    /\ progress.pos = PackageIncs + log.incLinks
    /\ \A p \in Range(aur_packages) :
          /\ log.incA[p] + log.incB[p] <= 1
          /\ log.incA[p] = 1 => log.emitted[p] = <<>>
          /\ log.incB[p] =
                Cardinality({ k \in 1..Len(log.worked[p]) :
                                log.worked[p][k].package_last
                                /\ (k < Len(log.worked[p])
                                    \/ \A w \in DOMAIN workerB :
                                          workerB[w].pc = "send" =>
                                              workerB[w].work # log.worked[p][k]) })
    /\ log.incLinks \in { 0, Len(enabled_sd_service_links) }

\* the bar is full: Stage B stepped it for a package at the second of two
\* artifacts, the one flagged last, and the links were added
C22_Witness ==
    /\ progress.pos = Len(aur_packages) + Len(enabled_sd_service_links)
    /\ log.incLinks = Len(enabled_sd_service_links)
    /\ \E p \in Range(aur_packages) :
          /\ log.incB[p] = 1
          /\ Len(log.worked[p]) = 2
          /\ ~ log.worked[p][1].package_last

---------------------------------------------------------------------------
\* the orders in which n deliveries can arrive
ArrivalOrders(n) ==
    { f \in [1..n -> 1..n] : \A i, j \in 1..n : f[i] = f[j] => i = j }

\* the deliveries of this run, arriving in the order f
Reordered(f) == [k \in 1..Len(log.consumed) |-> log.consumed[f[k]]]

\* C23: for fixed tool outputs the final LibMap (artifacts as multisets),
\* PacMap and TransitiveSet do not depend on the order in which the tuples
\* arrive: the loop run over the same deliveries in any other order ends
\* with the three aggregates of this run.
C23_OrderIndependent ==
    Aggregated =>
        \A f \in ArrivalOrders(Len(log.consumed)) :
            LET r == AggregateAll(Reordered(f))
            IN  /\ r.libmap = libmap
                /\ r.pacmap = pacmap
                /\ r.trans = trans

\* a package's non-direct miss arrived before its direct one, and two
\* artifacts were pushed for one soname and package
C23_Witness ==
    /\ Aggregated
    /\ Len(log.consumed) = 2
    /\ \/ /\ ~ log.consumed[1].direct
          /\ log.consumed[2].direct
          /\ log.consumed[1].t.package = log.consumed[2].t.package
          /\ trans = {}
       \/ /\ log.consumed[1].direct
          /\ log.consumed[2].direct
          /\ log.consumed[1].t.package = log.consumed[2].t.package
          /\ log.consumed[1].t.missing_dep = log.consumed[2].t.missing_dep
          /\ log.consumed[1].t.file # log.consumed[2].t.file

=============================================================================
